---- MODULE Spec2Model ----
(***************************************************************************)
(* A model of the reference renderers of simple_font_rendering_py:         *)
(* BaseRenderer (base.py), HarfBuzzRenderer (harfbuzzpy.py, shaping with   *)
(* HarfBuzz and rasterising with FreeType), CoreTextRenderer               *)
(* (coretextpy.py) and the factory of __init__.py.                         *)
(*                                                                         *)
(* Numbers.  Design coordinates are kept doubled ("halves": 1301 is        *)
(* 650.5) so that a fractional coordinate is an integer of the model.      *)
(* Pen positions are kept in 1/1000 pixel: the model's font has 1000 units *)
(* per em, so advance * font_size / upem pixels is advance * font_size     *)
(* thousandths, and tracking / 1000 * font_size pixels is                  *)
(* tracking * font_size thousandths.                                       *)
(***************************************************************************)
EXTENDS Integers, Sequences, FiniteSets, TLC

\* ------------------------------------------------------------------ bounds
MaxTextLen == 2
MaxHooks == 2
ProbeWidth == 3
ProbeHeight == 4

\* ------------------------------------------------------- program constants
Margin == 10
BaselinePct == 75

\* ------------------------------------------------------------ Python values
\* A Python argument value: None, a number (h = twice its value), the float
\* inf, a str that is a decimal integer literal (h = twice its value), the
\* empty str, or another str ("bold").
PyNone == [k |-> "none", h |-> 0]
PyNum(x) == [k |-> "num", h |-> 2 * x]
PyHalf(h) == [k |-> "num", h |-> h]
PyInf == [k |-> "inf", h |-> 0]
PyStrNum(x) == [k |-> "strnum", h |-> 2 * x]
PyStrEmpty == [k |-> "strempty", h |-> 0]
PyStrBad == [k |-> "str", h |-> 0]

Ok(v) == [ok |-> TRUE, err |-> "none", val |-> v]
Raise(e) == [ok |-> FALSE, err |-> e, val |-> 0]

\* bool(v)
Truthy(v) ==
  CASE v.k = "none" -> FALSE
    [] v.k = "num" -> v.h # 0
    [] v.k = "strempty" -> FALSE
    [] OTHER -> TRUE

\* Truncation towards zero of h/2.
TruncHalf(h) == IF h >= 0 THEN h \div 2 ELSE -((-h) \div 2)

\* float(v): the result in halves. float(inf) is inf; the model keeps it as a
\* value larger than every axis maximum.
InfHalves == 2 * 100000
PyFloat(v) ==
  CASE v.k = "num" -> Ok(v.h)
    [] v.k = "strnum" -> Ok(v.h)
    [] v.k = "inf" -> Ok(InfHalves)
    [] v.k = "none" -> Raise("TypeError")
    [] OTHER -> Raise("ValueError")

\* int(v): the integer result.
PyInt(v) ==
  CASE v.k = "num" -> Ok(TruncHalf(v.h))
    [] v.k = "strnum" -> Ok(TruncHalf(v.h))
    [] v.k = "inf" -> Raise("OverflowError")
    [] v.k = "none" -> Raise("TypeError")
    [] OTHER -> Raise("ValueError")

\* A mapping (dict) is a sequence of items in insertion order, keys distinct.
Item(t, v) == [tag |-> t, val |-> v]
HasKey(items, t) == \E i \in 1..Len(items) : items[i].tag = t
\* dict.get(t, dflt)
Get(items, t, dflt) ==
  IF HasKey(items, t)
  THEN items[CHOOSE i \in 1..Len(items) : items[i].tag = t].val
  ELSE dflt

\* A key of a mapping that is not a str (the int 5) is written "5".
NonStrTag == "5"
IsStr(t) == t # NonStrTag

\* An argument that may be None: `arg or {}`.
NoneArg == [isNone |-> TRUE, items |-> <<>>]
DictArg(items) == [isNone |-> FALSE, items |-> items]
OrEmpty(arg) == IF arg.isNone \/ arg.items = <<>> THEN <<>> ELSE arg.items
ArgTruthy(arg) == ~arg.isNone /\ arg.items # <<>>

\* ------------------------------------------------------------ the test font
\* The font file the renderers are given: two variation axes in this order,
\* values in halves.
upem == 1000
FontAxes ==
  << [tag |-> "wght", default |-> 2 * 400, max |-> 2 * 900],
     [tag |-> "wdth", default |-> 2 * 100, max |-> 2 * 200] >>
NAxes == Len(FontAxes)
AxisIx == 1..NAxes

Chars == {"A", " ", "Q"}
GlyphA == 1
GlyphSpace == 2
GlyphBroken == 3
GlyphAlt == 4

\* What the shaper is asked for features: tag=value requests, value # 0 is on.
FeatureOn(features, t) == HasKey(features, t) /\ Get(features, t, 0) # 0

\* hb.shape: one glyph per character; "A" is glyph 1, or glyph 4 under the
\* stylistic set ss01; advances in font units, wider at wght >= 700.
ShapeGlyph(ch, hbvars, features) ==
  LET heavy == hbvars[1] >= 2 * 700
  IN CASE ch = "A" /\ FeatureOn(features, "ss01") ->
            [codepoint |-> GlyphAlt, x_advance |-> 1000, x_offset |-> -500, y_offset |-> 0]
       [] ch = "A" ->
            [codepoint |-> GlyphA, x_advance |-> IF heavy THEN 1500 ELSE 1000,
             x_offset |-> 0, y_offset |-> 0]
       [] ch = " " ->
            [codepoint |-> GlyphSpace, x_advance |-> 500, x_offset |-> 0, y_offset |-> 0]
       [] OTHER ->
            [codepoint |-> GlyphBroken, x_advance |-> 1000, x_offset |-> 0, y_offset |-> 0]
Shape(text, hbvars, features) ==
  [i \in 1..Len(text) |-> ShapeGlyph(text[i], hbvars, features)]

\* FT_Set_Pixel_Sizes: the pixel sizes the face accepts.
FT_OkSizes == {1, 2}
\* Mutant of FT_Loadable: a glyph that cannot be decoded loads as an empty one.
FT_LoadableAll(g) == g = g
\* FT_Load_Glyph: the glyphs the rasteriser can decode.
FT_Loadable(g) == g # GlyphBroken

Fixed16(x) == x * 65536
\* The face's current-glyph bitmap for glyph g at the face's size and design
\* coordinates (16.16): width, rows, bitmap_left, bitmap_top and the samples.
Bitmap(g, size, coords) ==
  LET heavy == coords[1] >= Fixed16(700)
  IN CASE g = GlyphA ->
            [width |-> size, rows |-> size, left |-> 0, top |-> size,
             buffer |-> [r \in 0..(size - 1) |-> [c \in 0..(size - 1) |->
                IF heavy THEN (IF (r + c) % 2 = 0 THEN 255 ELSE 64)
                         ELSE (IF (r + c) % 2 = 0 THEN 128 ELSE 0)]]]
       [] g = GlyphAlt ->
            [width |-> 1, rows |-> 1, left |-> 0, top |-> 1,
             buffer |-> [r \in 0..0 |-> [c \in 0..0 |-> 255]]]
       [] OTHER ->
            [width |-> 0, rows |-> 0, left |-> 0, top |-> 0,
             buffer |-> [r \in {} |-> [c \in {} |-> 0]]]

\* ----------------------------------------------------------- native handles
\* Cython's coercion of a mapping value to a C float in Font.set_variations.
HBCoerce(v) ==
  CASE v.k = "num" -> Ok(v.h)
    [] v.k = "inf" -> Ok(InfHalves)
    [] OTHER -> Raise("TypeError")

\* What Font.set_variations does with one item: name.encode() and the value.
HBItem(it) == IF ~IsStr(it.tag) THEN Raise("AttributeError") ELSE HBCoerce(it.val)

Min(a, b) == IF a <= b THEN a ELSE b
Max(a, b) == IF a >= b THEN a ELSE b

\* hb_font.set_variations(items): raises at the first item it cannot pack and
\* then changes nothing; otherwise every axis takes the item's value (clamped to
\* the axis) or, with no item for its tag, its default.
set_variations(items) ==
  IF \E i \in 1..Len(items) : ~HBItem(items[i]).ok
  THEN Raise(HBItem(items[CHOOSE i \in 1..Len(items) :
                 /\ ~HBItem(items[i]).ok
                 /\ \A j \in 1..(i - 1) : HBItem(items[j]).ok]).err)
  ELSE Ok([a \in AxisIx |->
            IF HasKey(items, FontAxes[a].tag)
            THEN Min(HBCoerce(Get(items, FontAxes[a].tag, PyNone)).val, FontAxes[a].max)
            ELSE FontAxes[a].default])

\* The user coordinate _apply_variations_to_freetype reads for axis a.
UserCoord(items, a) == Get(items, FontAxes[a].tag, PyHalf(FontAxes[a].default))

\* FT_Fixed(int(user_coord) << 16)
ToFixed(v) == IF PyInt(v).ok THEN Ok(Fixed16(PyInt(v).val)) ELSE PyInt(v)

\* _apply_variations_to_freetype: the coordinate array in the font's axis
\* order, submitted in one call; an int() that raises leaves the face as it was.
apply_variations_to_freetype(items) ==
  IF \E a \in AxisIx : ~ToFixed(UserCoord(items, a)).ok
  THEN Raise(ToFixed(UserCoord(items, CHOOSE a \in AxisIx :
                 /\ ~ToFixed(UserCoord(items, a)).ok
                 /\ \A b \in 1..(a - 1) : ToFixed(UserCoord(items, b)).ok)).err)
  ELSE Ok([a \in AxisIx |-> ToFixed(UserCoord(items, a)).val])

\* The face before any FT_Set_Var_Design_Coordinates: every axis at its default.
FTDefaults == [a \in AxisIx |-> Fixed16(FontAxes[a].default \div 2)]
HBDefaults == [a \in AxisIx |-> FontAxes[a].default]

\* CoreText: the static axis_ids table and the fallback packing of a tag.
TagBytes(t) ==
  CASE t = "wght" -> <<119, 103, 104, 116>>
    [] t = "wdth" -> <<119, 100, 116, 104>>
    [] t = "slnt" -> <<115, 108, 110, 116>>
    [] t = "ital" -> <<105, 116, 97, 108>>
    [] t = "opsz" -> <<111, 112, 115, 122>>
    [] t = "zzzz" -> <<122, 122, 122, 122>>
    [] OTHER -> <<32, 32, 32, 32>>
KnownAxisTags == {"wght", "wdth", "slnt", "ital", "opsz"}
axis_ids(t) ==
  CASE t = "wght" -> 2003265652
    [] t = "wdth" -> 2003072104
    [] t = "slnt" -> 1936486004
    [] t = "ital" -> 1769234796
    [] OTHER -> 1869640570
\* Mutant of PackBytes: the four bytes are read in little-endian order.
PackBytesLittleEndian(b) == b[4] * 16777216 + b[3] * 65536 + b[2] * 256 + b[1]
\* struct.unpack("!I", four bytes)[0]
PackBytes(b) == b[1] * 16777216 + b[2] * 65536 + b[3] * 256 + b[4]
\* struct.unpack("!I", tag.encode("utf-8")[:4].ljust(4, b" "))[0]
PackTag(t) == PackBytes(TagBytes(t))
AxisId(t) == IF t \in KnownAxisTags THEN axis_ids(t) ELSE PackTag(t)

\* The same lookup for a tag given by its four ASCII bytes: `tag in axis_ids`
\* compares the str with the five keys of the table.
IsKnownBytes(b) == \E t \in KnownAxisTags : TagBytes(t) = b
AxisIdOfBytes(b) ==
  IF IsKnownBytes(b)
  THEN axis_ids(CHOOSE t \in KnownAxisTags : TagBytes(t) = b)
  ELSE PackBytes(b)

\* One entry of variation_dict: the key and float(value).
CTItem(it) ==
  IF it.tag \notin KnownAxisTags /\ ~IsStr(it.tag) THEN Raise("AttributeError")
  ELSE IF ~PyFloat(it.val).ok THEN PyFloat(it.val)
  ELSE Ok([id |-> AxisId(it.tag), val |-> PyFloat(it.val).val])

\* _create_font(font_path, font_size, instance_coords, features): the derived
\* CTFont as the size, the variation attribute and the feature settings it was
\* built with. CGFontCreateWithDataProvider gives nothing for bytes that are
\* no font.
create_font(fontfile, size, coords, features) ==
  IF fontfile # "good" THEN Raise("RendererInitError")
  ELSE IF coords = <<>> /\ features = <<>>
  THEN Ok([size |-> size, variation |-> <<>>, features |-> <<>>])
  ELSE IF \E i \in 1..Len(coords) : ~CTItem(coords[i]).ok
  THEN Raise(CTItem(coords[CHOOSE i \in 1..Len(coords) :
                 /\ ~CTItem(coords[i]).ok
                 /\ \A j \in 1..(i - 1) : CTItem(coords[j]).ok]).err)
  ELSE Ok([size |-> size,
           variation |-> [i \in 1..Len(coords) |-> CTItem(coords[i]).val],
           features |-> features])

NoFont == [size |-> 0, variation |-> <<>>, features |-> <<>>]
NoFace == [size |-> 0, coords |-> FTDefaults, glyph |-> 0]

\* -------------------------------------------------------------------- state
VARIABLES
  platform,         \* the system and which native imports succeeded
  status,           \* "none" before construction, then "ok" or "failed"
  engine,           \* "harfbuzz" or "coretext"
  font_path,        \* the font file: "good", "missing" or "garbage"
  instance_coords,  \* self.instance_coords
  features,         \* self.features
  width, height, font_size, tracking,
  hb_font,          \* design coordinates in effect on self.hb_font (halves)
  ft_face,          \* self.ft_face: pixel size, 16.16 coordinates, glyph slot
  ct_font,          \* self._font
  calls,            \* the render_text calls: position, locals, result
  prev,             \* the buffer the preceding render_text of the same text returned
  op,               \* the operation that ended last, its arguments and outcome
  hooks,            \* how many update hooks were called
  pool,             \* the renderers of a worker pool: one shared, or one each
  probe             \* the arguments and the result of a _composite_glyph call

vars == << platform, status, engine, font_path, instance_coords, features,
           width, height, font_size, tracking, hb_font, ft_face, ct_font,
           calls, prev, op, hooks, pool, probe >>
fields == << instance_coords, features, width, height, font_size, tracking >>
handles == << hb_font, ft_face, ct_font >>

\* ------------------------------------------------------------------ inputs
Engines == {"harfbuzz", "coretext"}
\* A Linux with uharfbuzz and freetype-py, and a macOS with the PyObjC
\* frameworks and without them.
Platforms ==
  { [system |-> "Linux", hb |-> TRUE, ct |-> FALSE],
    [system |-> "Darwin", hb |-> FALSE, ct |-> TRUE] }
FontFiles == {"good", "missing", "garbage"}
\* font_path.name: the last component of the path, here fonts/<font_path>.ttf
PathName(p) == p \o ".ttf"

CoordMaps ==
  { << Item("wght", PyNum(700)) >>,
    << Item("wght", PyHalf(1301)) >>,
    << Item("wdth", PyNum(150)), Item("wght", PyNum(700)) >>,
    << Item("zzzz", PyNum(1)) >>,
    << Item(NonStrTag, PyNum(1)) >>,
    << Item("wght", PyInf) >>,
    << Item("wght", PyStrBad) >> }
CoordArgs == {NoneArg} \cup {DictArg(m) : m \in CoordMaps}
\* The mappings the update hook is called with.
HookCoordArgs == {a \in CoordArgs : Len(a.items) < 2}
FeatureArgs == {NoneArg, DictArg(<< Item("ss01", 1) >>)}
\* The constructor calls: with coordinates or with features.
CtorArgs ==
  {<<c, NoneArg>> : c \in CoordArgs} \cup {<<NoneArg, f>> : f \in FeatureArgs}
CtorSizes == {2, 3}

Workers == {1, 2}
IdleCall == [pc |-> "idle", text |-> <<>>, glyphs |-> <<>>, i |-> 0,
             img |-> <<>>, pen_x |-> 0]
NoPrev == [valid |-> FALSE, img |-> <<>>]
NoArgs == [coords |-> NoneArg, tracking |-> PyNone,
           width |-> PyNone, height |-> PyNone, font_size |-> PyNone,
           backend |-> "none"]
NoRet == <<>>
Op(name, raised, attempted, failed, args) ==
  [name |-> name, raised |-> raised, attempted |-> attempted,
   failed |-> failed, args |-> args, ret |-> NoRet]
\* A pool of workers around one renderer; the second renderer's glyph slot is
\* used when every worker has a renderer of its own.
OnePool == [shared |-> TRUE, glyph2 |-> 0]
NoProbe == [applied |-> FALSE, img |-> <<>>, glyph |-> <<>>, pen_x |-> 0,
            pos |-> <<>>, x |-> 0, y |-> 0, out |-> <<>>, pen_after |-> 0]

Init ==
  /\ platform \in Platforms
  /\ status = "none"
  /\ engine = "none"
  /\ font_path = "good"
  /\ instance_coords = <<>>
  /\ features = <<>>
  /\ width = 0 /\ height = 0 /\ font_size = 0 /\ tracking = 0
  /\ hb_font = HBDefaults
  /\ ft_face = NoFace
  /\ ct_font = NoFont
  /\ calls = [w \in Workers |-> IdleCall]
  /\ prev = NoPrev
  /\ op = Op("none", "none", FALSE, {}, NoArgs)
  /\ hooks = 0
  /\ pool = OnePool
  /\ probe = NoProbe

\* ------------------------------------------------------------ construction
\* BaseRenderer.__init__
BaseInit(fontfile, coords, feats, w, h, size, trk) ==
  /\ font_path' = fontfile
  /\ instance_coords' = OrEmpty(coords)
  /\ features' = OrEmpty(feats)
  /\ width' = w /\ height' = h /\ font_size' = size
  /\ tracking' = 2 * trk

\* What HarfBuzzRenderer.__init__ raises, "none" when it returns.
HBInitError(plat, fontfile, coords, size) ==
  IF ~plat.hb THEN "RendererInitError"
  ELSE IF fontfile = "missing" THEN "OSError"
  ELSE IF ArgTruthy(coords) /\ ~set_variations(coords.items).ok THEN "RendererInitError"
  ELSE IF fontfile = "garbage" THEN "FT_Exception"
  ELSE IF size \notin FT_OkSizes THEN "FT_Exception"
  ELSE IF ArgTruthy(coords) /\ ~apply_variations_to_freetype(coords.items).ok
  THEN apply_variations_to_freetype(coords.items).err
  ELSE "none"

\* CoreTextRenderer.is_available
CoreTextAvailable(plat) == plat.system = "Darwin" /\ plat.ct
\* HarfBuzzRenderer.is_available
HarfBuzzAvailable(plat) == plat.hb

\* What CoreTextRenderer.__init__ raises, "none" when it returns.
CTInitError(plat, fontfile, coords, feats, size) ==
  IF ~CoreTextAvailable(plat) THEN "RendererUnavailableError"
  ELSE IF fontfile = "missing" THEN "OSError"
  ELSE create_font(fontfile, size, OrEmpty(coords), OrEmpty(feats)).err

Failed(name, err) ==
  /\ status' = "failed"
  /\ op' = Op(name, err, FALSE, {}, NoArgs)
  /\ UNCHANGED << platform, engine, font_path, fields, handles, prev, hooks, pool, probe >>

\* HarfBuzzRenderer(font_path, instance_coords=..., features=..., width=...,
\* height=..., font_size=..., tracking=...)
HarfBuzzRenderer(name, fontfile, coords, feats, w, h, size, trk) ==
  LET err == HBInitError(platform, fontfile, coords, size) IN
  IF err # "none" THEN Failed(name, err)
  ELSE
    /\ status' = "ok"
    /\ engine' = "harfbuzz"
    /\ BaseInit(fontfile, coords, feats, w, h, size, trk)
    /\ hb_font' = IF ArgTruthy(coords) THEN set_variations(coords.items).val
                  ELSE HBDefaults
    /\ ft_face' = [size |-> size,
                   coords |-> IF ArgTruthy(coords)
                              THEN apply_variations_to_freetype(coords.items).val
                              ELSE FTDefaults,
                   glyph |-> 0]
    /\ op' = Op(name, "none", FALSE, {}, NoArgs)
    /\ UNCHANGED << platform, ct_font, prev, hooks, pool, probe >>

\* CoreTextRenderer(font_path, instance_coords=..., features=..., tracking=...,
\* **kwargs)
CoreTextRenderer(name, fontfile, coords, feats, w, h, size, trk) ==
  LET err == CTInitError(platform, fontfile, coords, feats, size) IN
  IF err # "none" THEN Failed(name, err)
  ELSE
    /\ status' = "ok"
    /\ engine' = "coretext"
    /\ BaseInit(fontfile, coords, feats, w, h, size, trk)
    /\ ct_font' = create_font(fontfile, size, OrEmpty(coords), OrEmpty(feats)).val
    /\ op' = Op(name, "none", FALSE, {}, NoArgs)
    /\ UNCHANGED << platform, hb_font, ft_face, prev, hooks, pool, probe >>

\* A direct call of one of the two constructors.
Construct ==
  /\ status = "none"
  /\ \E e \in Engines, f \in FontFiles, a \in CtorArgs,
        w \in {12}, h \in {4}, s \in CtorSizes, t \in {0} :
       IF e = "harfbuzz"
       THEN HarfBuzzRenderer("HarfBuzzRenderer", f, a[1], a[2], w, h, s, t)
       ELSE CoreTextRenderer("CoreTextRenderer", f, a[1], a[2], w, h, s, t)
  /\ UNCHANGED calls

Backends == {"simple-coretext", "simple-harfbuzz", "simple-skia"}
\* create_renderer(backend, font_path, font_size, width, height), called by
\* the operation `name`
create_renderer_from(name, backend, f, s, w, h) ==
  IF backend = "simple-coretext"
  THEN IF ~CoreTextAvailable(platform)
       THEN Failed(name, "RendererUnavailableError")
       ELSE CoreTextRenderer(name, f, NoneArg, NoneArg, w, h, s, 0)
  ELSE IF backend = "simple-harfbuzz"
  THEN IF ~HarfBuzzAvailable(platform)
       THEN Failed(name, "RendererUnavailableError")
       ELSE HarfBuzzRenderer(name, f, NoneArg, NoneArg, w, h, s, 0)
  ELSE Failed(name, "RendererInitError")
create_renderer(backend, f, s, w, h) ==
  create_renderer_from("create_renderer", backend, f, s, w, h)

CreateRenderer ==
  /\ status = "none"
  /\ \E b \in Backends, f \in FontFiles, s \in CtorSizes, w \in {12}, h \in {4} :
       create_renderer(b, f, s, w, h)
  /\ UNCHANGED calls

\* ------------------------------------------------------------ update hooks
InFlight(w) == calls[w].pc \in {"load", "blit"}
Quiet == \A w \in Workers : ~InFlight(w)
\* A hook runs between render_text calls of a sequential caller; the buffers
\* returned so far are the caller's.
CanUpdate == status = "ok" /\ Quiet /\ hooks < MaxHooks
Forget ==
  /\ calls' = [w \in Workers |-> IdleCall]
  /\ prev' = NoPrev
  /\ hooks' = hooks + 1
  /\ UNCHANGED << pool, probe >>

\* Mutant of HBUpdateCoords: like the constructor, the hook applies the
\* mapping to the handles only when it is not empty.
HBUpdateCoordsSkipsEmpty(arg) ==
  LET new == OrEmpty(arg)
      hb == set_variations(new)
      ft == apply_variations_to_freetype(new)
  IN /\ instance_coords' = new
     /\ hb_font' = IF hb.ok /\ new # <<>> THEN hb.val ELSE hb_font
     /\ ft_face' = IF ft.ok /\ new # <<>> THEN [ft_face EXCEPT !.coords = ft.val]
                   ELSE ft_face
     /\ op' = Op("update_instance_coords", "none", TRUE,
                 (IF hb.ok THEN {} ELSE {"hb_font"}) \cup
                 (IF ft.ok THEN {} ELSE {"ft_face"}),
                 [NoArgs EXCEPT !.coords = arg])
     /\ UNCHANGED ct_font

\* HarfBuzzRenderer.update_instance_coords
HBUpdateCoords(arg) ==
  LET new == OrEmpty(arg)
      hb == set_variations(new)
      ft == apply_variations_to_freetype(new)
  IN /\ instance_coords' = new
     /\ hb_font' = IF hb.ok THEN hb.val ELSE hb_font
     /\ ft_face' = IF ft.ok THEN [ft_face EXCEPT !.coords = ft.val] ELSE ft_face
     /\ op' = Op("update_instance_coords", "none", TRUE,
                 (IF hb.ok THEN {} ELSE {"hb_font"}) \cup
                 (IF ft.ok THEN {} ELSE {"ft_face"}),
                 [NoArgs EXCEPT !.coords = arg])
     /\ UNCHANGED ct_font

\* CoreTextRenderer.update_instance_coords
CTUpdateCoords(arg) ==
  LET new == OrEmpty(arg)
      ct == create_font(font_path, font_size, new, features)
  IN /\ instance_coords' = new
     /\ ct_font' = IF ct.ok THEN ct.val ELSE ct_font
     /\ op' = Op("update_instance_coords", "none", TRUE,
                 IF ct.ok THEN {} ELSE {"ct_font"},
                 [NoArgs EXCEPT !.coords = arg])
     /\ UNCHANGED << hb_font, ft_face >>

update_instance_coords ==
  /\ CanUpdate
  /\ \E arg \in HookCoordArgs :
       IF engine = "harfbuzz" THEN HBUpdateCoords(arg) ELSE CTUpdateCoords(arg)
  /\ Forget
  /\ UNCHANGED << platform, status, engine, font_path, features,
                  width, height, font_size, tracking >>

\* Mutant of TrackingOf: `except Exception: pass`, the old value is kept.
TrackingOfKeepsOld(v) ==
  LET r == IF Truthy(v) THEN PyFloat(v) ELSE Ok(0)
  IN IF r.ok THEN r.val ELSE tracking

\* float(tracking or 0.0), 0.0 when that raises
TrackingOf(v) ==
  LET r == IF Truthy(v) THEN PyFloat(v) ELSE Ok(0)
  IN IF r.ok THEN r.val ELSE 0

TrackingArgs ==
  {PyNone, PyNum(500), PyNum(-1000), PyStrNum(500), PyStrBad}

\* BaseRenderer.update_tracking (neither backend overrides it)
update_tracking ==
  /\ CanUpdate
  /\ \E v \in TrackingArgs :
       /\ tracking' = TrackingOf(v)
       /\ op' = Op("update_tracking", "none", FALSE, {},
                   [NoArgs EXCEPT !.tracking = v])
  /\ Forget
  /\ UNCHANGED << platform, status, engine, font_path, instance_coords, features,
                  width, height, font_size, handles >>

\* The rebuild of update_dimensions for a new font size: the handles after it
\* and the handles whose rebuild raised.
RebuildSize(size) ==
  IF engine = "harfbuzz"
  THEN IF size \in FT_OkSizes
       THEN [ft |-> [ft_face EXCEPT !.size = size], ct |-> ct_font, failed |-> {}]
       ELSE [ft |-> ft_face, ct |-> ct_font, failed |-> {"ft_face"}]
  ELSE LET r == create_font(font_path, size, instance_coords, features)
       IN IF r.ok THEN [ft |-> ft_face, ct |-> r.val, failed |-> {}]
          ELSE [ft |-> ft_face, ct |-> ct_font, failed |-> {"ct_font"}]

\* Mutant of SizeChanges: the comparison with the stored size is dropped.
SizeChangesAlways(fs) == fs.k # "none" /\ PyInt(fs).ok

\* font_size is not None and int(font_size) != self.font_size
SizeChanges(fs) == fs.k # "none" /\ PyInt(fs).ok /\ PyInt(fs).val # font_size

\* The calls of update_dimensions: <<width, height, font_size>>.
DimArgs ==
  { <<PyNum(11), PyNone, PyNone>>,
    <<PyNone, PyNum(2), PyNum(1)>>,
    <<PyNone, PyNone, PyNum(2)>>,
    <<PyNone, PyNone, PyNum(3)>>,
    <<PyNum(11), PyStrBad, PyNum(1)>>,
    <<PyNum(11), PyNum(2), PyStrBad>> }

\* update_dimensions(width=w, height=h, font_size=fs) of both backends: the
\* three assignments in order, each int() raising to the caller.
UpdateDimensions(w, h, fs) ==
  LET args == [NoArgs EXCEPT !.width = w, !.height = h, !.font_size = fs]
      wOk == w.k = "none" \/ PyInt(w).ok
      hOk == h.k = "none" \/ PyInt(h).ok
      fOk == fs.k = "none" \/ PyInt(fs).ok
      changes == SizeChanges(fs)
      rb == RebuildSize(PyInt(fs).val)
  IN /\ width' = IF w.k # "none" /\ wOk THEN PyInt(w).val ELSE width
     /\ height' = IF wOk /\ h.k # "none" /\ hOk THEN PyInt(h).val ELSE height
     /\ IF wOk /\ hOk /\ changes
        THEN /\ font_size' = PyInt(fs).val
             /\ ft_face' = rb.ft
             /\ ct_font' = rb.ct
             /\ op' = Op("update_dimensions", "none", TRUE, rb.failed, args)
        ELSE /\ UNCHANGED << font_size, ft_face, ct_font >>
             /\ op' = Op("update_dimensions",
                         IF ~wOk THEN PyInt(w).err
                         ELSE IF ~hOk THEN PyInt(h).err
                         ELSE IF ~fOk THEN PyInt(fs).err ELSE "none",
                         FALSE, {}, args)

update_dimensions ==
  /\ CanUpdate
  /\ \E a \in DimArgs : UpdateDimensions(a[1], a[2], a[3])
  /\ Forget
  /\ UNCHANGED << platform, status, engine, font_path, instance_coords, features,
                  tracking, hb_font >>

\* --------------------------------------------------------------- rendering
\* Mutants of Blank: the shape transposed; a black canvas.
BlankTransposed(h, w) == [r \in 0..(w - 1) |-> [c \in 0..(h - 1) |-> 255]]
BlankZeros(h, w) == [r \in 0..(h - 1) |-> [c \in 0..(w - 1) |-> 0]]

\* np.ones((height, width), dtype=np.uint8) * 255
Blank(h, w) == [r \in 0..(h - 1) |-> [c \in 0..(w - 1) |-> 255]]

\* float32(1 - float32(c / 255.0)) as an exact fraction <<n, d>>, for the
\* coverage values of the font's bitmaps.
F32OneMinus(c) ==
  CASE c = 0 -> <<1, 1>>
    [] c = 64 -> <<196351, 262144>>
    [] c = 128 -> <<8355711, 16777216>>
    [] OTHER -> <<0, 1>>

\* Mutant of Blend: a sample that already holds ink is set back to white.
BlendResetsInked(existing, c) ==
  IF existing = 255 THEN (existing * F32OneMinus(c)[1]) \div F32OneMinus(c)[2]
  ELSE 255

\* Mutant of Blend: the coverage is used where its complement belongs.
BlendKeepsCoverage(existing, c) == (existing * c) \div 255

\* (img_slice * (1 - glyph_region)).astype(np.uint8) for one sample: the
\* float32 product, truncated.
Blend(existing, c) == (existing * F32OneMinus(c)[1]) \div F32OneMinus(c)[2]

\* img.shape
Rows(img) == Cardinality(DOMAIN img)
Cols(img) == IF Rows(img) = 0 THEN 0 ELSE Cardinality(DOMAIN img[0])

\* Mutant of clip: the right and the bottom edge are not clipped to the canvas.
clipUnbounded(iw, ih, gw, gh, x, y) ==
  [x1 |-> Max(0, x), y1 |-> Max(0, y), x2 |-> x + gw, y2 |-> y + gh,
   gx1 |-> Max(0, -x), gy1 |-> Max(0, -y),
   gx2 |-> Max(0, -x) + (x + gw - Max(0, x)),
   gy2 |-> Max(0, -y) + (y + gh - Max(0, y))]

\* The slice bounds _composite_glyph computes for a gw x gh glyph at (x, y) on
\* an iw x ih canvas.
clip(iw, ih, gw, gh, x, y) ==
  LET x1 == Max(0, x)
      y1 == Max(0, y)
      x2 == Min(iw, x + gw)
      y2 == Min(ih, y + gh)
      gx1 == Max(0, -x)
      gy1 == Max(0, -y)
  IN [x1 |-> x1, y1 |-> y1, x2 |-> x2, y2 |-> y2,
      gx1 |-> gx1, gy1 |-> gy1,
      gx2 |-> gx1 + (x2 - x1), gy2 |-> gy1 + (y2 - y1)]

\* Mutant of composite_glyph: no clipping, the slice indices wrap around the
\* canvas.
composite_glyphWrapped(img, bm, x, y) ==
  [Y \in 0..(Rows(img) - 1) |-> [X \in 0..(Cols(img) - 1) |->
     IF \E gy \in 0..(bm.rows - 1), gx \in 0..(bm.width - 1) :
          (y + gy) % Rows(img) = Y /\ (x + gx) % Cols(img) = X
     THEN Blend(img[Y][X],
                bm.buffer[((Y - y) % Rows(img)) % bm.rows][((X - x) % Cols(img)) % bm.width])
     ELSE img[Y][X]]]

\* _composite_glyph(img, glyph, x, y): the canvas after it.
composite_glyph(img, bm, x, y) ==
  LET gh == bm.rows
      ih == Rows(img)
      iw == Cols(img)
      gw == bm.width
      x1 == Max(0, x)
      y1 == Max(0, y)
      x2 == Min(iw, x + gw)
      y2 == Min(ih, y + gh)
      gx1 == Max(0, -x)
      gy1 == Max(0, -y)
  IN IF x2 <= x1 \/ y2 <= y1 THEN img
     ELSE IF \A Y \in y1..(y2 - 1), X \in x1..(x2 - 1) :
                bm.buffer[gy1 + (Y - y1)][gx1 + (X - x1)] = 0
     THEN img
     ELSE [Y \in 0..(ih - 1) |-> [X \in 0..(iw - 1) |->
            IF Y >= y1 /\ Y < y2 /\ X >= x1 /\ X < x2
            THEN Blend(img[Y][X], bm.buffer[gy1 + (Y - y1)][gx1 + (X - x1)])
            ELSE img[Y][X]]]

\* int(round(v)) for v in thousandths: Python rounds halves to even.
FloorDiv(a, b) == IF a >= 0 THEN a \div b ELSE -((-a + b - 1) \div b)
RoundHalfEven(m) ==
  LET q == FloorDiv(m, 1000)
      r == m - 1000 * q
  IN IF r < 500 THEN q
     ELSE IF r > 500 THEN q + 1
     ELSE IF q % 2 = 0 THEN q ELSE q + 1

\* font units to thousandths of a pixel: units * (font_size / upem)
Scaled(units, size) == FloorDiv(units * size * 1000, upem)
\* tracking_px = tracking / 1000 * font_size, in thousandths of a pixel
TrackingPx(trk, size) == FloorDiv(trk * size, 2)
\* pen_y = height * RENDER_BASELINE_RATIO, in thousandths of a pixel
PenY(h) == h * BaselinePct * 10

\* bitmap.buffer and bitmap.width > 0 and bitmap.rows > 0
HasInk(bm) == bm.width > 0 /\ bm.rows > 0

\* The destination of the glyph at the pen.
DestX(pen, pos, bm, size) == RoundHalfEven(pen + Scaled(pos.x_offset, size) + 1000 * bm.left)
DestY(h, pos, bm, size) == RoundHalfEven(PenY(h) - 1000 * bm.top - Scaled(pos.y_offset, size))

\* The call of worker w has returned a buffer.
Returned(w) == calls[w].pc = "done"
\* render_text_simple has made the renderer and is about to call its
\* render_text with the text it was given.
Pending(w) == calls[w].pc = "pending"
\* A worker starts a call when its previous call has ended.
CanRender(w) == status = "ok" /\ ~InFlight(w)

\* prev: what the call before this one returned, when it was a call with the
\* same text and no hook ran since.
Remember(w, text) ==
  prev' = IF calls[w].pc = "done" /\ calls[w].text = text
          THEN [valid |-> TRUE, img |-> calls[w].img]
          ELSE NoPrev

\* Mutant of FreshCanvas: the canvas of the preceding call is drawn on again.
FreshCanvasReused(w) ==
  IF calls[w].pc = "done" THEN calls[w].img ELSE Blank(height, width)

\* The canvas a render_text call starts from.
FreshCanvas(w) == Blank(height, width)

\* HarfBuzzRenderer.render_text up to the loop: the canvas, the shaping and
\* the return for an empty text.
HBRenderStart(w, text) ==
  /\ CanRender(w)
  /\ Pending(w) => text = calls[w].text
  /\ engine = "harfbuzz"
  /\ Remember(w, text)
  /\ calls' = [calls EXCEPT ![w] =
       IF text = <<>>
       THEN [pc |-> "done", text |-> text, glyphs |-> <<>>, i |-> 0,
             img |-> FreshCanvas(w), pen_x |-> 0]
       ELSE [pc |-> "load", text |-> text,
             glyphs |-> Shape(text, hb_font, features), i |-> 1,
             img |-> FreshCanvas(w), pen_x |-> Margin * 1000]]
  /\ op' = Op("render_text", "none", FALSE, {}, NoArgs)
  /\ UNCHANGED << platform, status, engine, font_path, fields, handles, hooks, pool, probe >>

\* The face worker w's renderer holds: the second worker of a pool with a
\* renderer per worker has a face of its own, built like the first.
OwnFace(w) == ~pool.shared /\ w # 1
\* Mutant of GlyphSlot: every call reads the glyph it loaded itself.
GlyphSlotOfCall(w) == calls[w].glyphs[calls[w].i].codepoint
\* self.ft_face.glyph of worker w's renderer
GlyphSlot(w) == IF OwnFace(w) THEN pool.glyph2 ELSE ft_face.glyph

\* self.ft_face.load_glyph(info.codepoint, FT_LOAD_RENDER)
HBRenderLoad(w) ==
  /\ calls[w].pc = "load"
  /\ LET g == calls[w].glyphs[calls[w].i].codepoint IN
       IF FT_Loadable(g)
       THEN /\ IF OwnFace(w)
               THEN pool' = [pool EXCEPT !.glyph2 = g] /\ UNCHANGED ft_face
               ELSE ft_face' = [ft_face EXCEPT !.glyph = g] /\ UNCHANGED pool
            /\ calls' = [calls EXCEPT ![w].pc = "blit"]
            /\ UNCHANGED op
       ELSE /\ calls' = [calls EXCEPT ![w].pc = "raised", ![w].img = <<>>]
            /\ op' = Op("render_text", "RendererInitError", FALSE, {}, NoArgs)
            /\ UNCHANGED << ft_face, pool >>
  /\ UNCHANGED << platform, status, engine, font_path, fields, hb_font, ct_font,
                  prev, hooks, probe >>

\* The pen after the glyph: the advance, and the tracking when the glyph was
\* composited.
NextPen(pen, pos, bm) ==
  IF ~HasInk(bm) THEN pen + Scaled(pos.x_advance, font_size)
  ELSE pen + Scaled(pos.x_advance, font_size)
           + (IF TrackingPx(tracking, font_size) # 0
              THEN TrackingPx(tracking, font_size) ELSE 0)

\* The rest of the loop body: read the face's current bitmap, composite it
\* and advance the pen; the return after the last glyph.
HBRenderBlit(w) ==
  /\ calls[w].pc = "blit"
  /\ LET c == calls[w]
         pos == c.glyphs[c.i]
         bm == Bitmap(GlyphSlot(w), ft_face.size, ft_face.coords)
     IN calls' = [calls EXCEPT ![w] =
          [c EXCEPT
             !.img = IF HasInk(bm)
                     THEN composite_glyph(c.img, bm,
                            DestX(c.pen_x, pos, bm, font_size),
                            DestY(height, pos, bm, font_size))
                     ELSE c.img,
             !.pen_x = NextPen(c.pen_x, pos, bm),
             !.i = c.i + 1,
             !.pc = IF c.i = Len(c.glyphs) THEN "done" ELSE "load"]]
  /\ UNCHANGED << platform, status, engine, font_path, fields, handles, prev, op, hooks, pool, probe >>

\* The design coordinates in effect on the CTFont (halves): the variation
\* attribute's value for the axis, else the axis default.
CTCoords(font) ==
  [a \in AxisIx |->
     IF \E i \in 1..Len(font.variation) : font.variation[i].id = AxisId(FontAxes[a].tag)
     THEN Min(font.variation[CHOOSE i \in 1..Len(font.variation) :
                 font.variation[i].id = AxisId(FontAxes[a].tag)].val, FontAxes[a].max)
     ELSE FontAxes[a].default]

\* baseline_y = int(height * (1.0 - RENDER_BASELINE_RATIO)), from the bottom
BaselineFromBottom(h) == (h * (100 - BaselinePct)) \div 100

\* kern_points, attached when abs(kern_points) > 1e-9
KernPoints(trk, size) == TrackingPx(trk, size)

\* CTLineDraw of the attributed string at (10, baseline_y): the glyphs of the
\* run drawn with the CTFont, the kern added after every glyph.
RECURSIVE CTLineDraw(_, _, _, _, _, _)
CTLineDraw(img, glyphs, i, pen, font, kern) ==
  IF i > Len(glyphs) THEN img
  ELSE LET pos == glyphs[i]
           bm == IF FT_Loadable(pos.codepoint)
                 THEN Bitmap(pos.codepoint, font.size,
                             [a \in AxisIx |-> CTCoords(font)[a] * 32768])
                 ELSE Bitmap(GlyphSpace, font.size, FTDefaults)
           x == RoundHalfEven(pen + Scaled(pos.x_offset, font.size) + 1000 * bm.left)
           y == (Rows(img) - BaselineFromBottom(Rows(img))) - bm.top
       IN CTLineDraw(IF HasInk(bm) THEN composite_glyph(img, bm, x, y) ELSE img,
                     glyphs, i + 1, pen + Scaled(pos.x_advance, font.size) + kern,
                     font, kern)

\* CoreTextRenderer.render_text: one native draw of the whole line.
CTRender(w, text) ==
  /\ CanRender(w)
  /\ Pending(w) => text = calls[w].text
  /\ engine = "coretext"
  /\ Remember(w, text)
  /\ calls' = [calls EXCEPT ![w] =
       [pc |-> "done", text |-> text,
        glyphs |-> Shape(text, CTCoords(ct_font), ct_font.features), i |-> 0,
        img |-> CTLineDraw(FreshCanvas(w),
                           Shape(text, CTCoords(ct_font), ct_font.features), 1,
                           Margin * 1000, ct_font, KernPoints(tracking, font_size)),
        pen_x |-> 0]]
  /\ op' = Op("render_text", "none", FALSE, {}, NoArgs)
  /\ UNCHANGED << platform, status, engine, font_path, fields, handles, hooks, pool, probe >>

\* ------------------------------------------------------------------- texts
RECURSIVE SeqsUpTo(_, _)
SeqsUpTo(S, n) ==
  IF n = 0 THEN {<<>>}
  ELSE SeqsUpTo(S, n - 1) \cup
       {Append(t, c) : t \in {u \in SeqsUpTo(S, n - 1) : Len(u) = n - 1}, c \in S}
\* The texts rendered: every text of at most one character and the longer
\* ones below, up to the bound.
Texts ==
  {t \in SeqsUpTo(Chars, 1) \cup
         { <<"A", "A">>, <<"A", "Q">>, <<"A", " ">>, <<" ", " ">>,
           <<"A", " ", "A">>, <<"A", "A", "A", "A">> } :
     Len(t) <= MaxTextLen}

\* A sequential caller: one render_text at a time, hooks between the calls.
RenderStart == \E t \in Texts : HBRenderStart(1, t)
RenderLoad == HBRenderLoad(1)
RenderBlit == HBRenderBlit(1)
RenderCT == \E t \in Texts : CTRender(1, t)

\* ----------------------------------------------------------------- summary
\* Mutant of summary: the coordinates are left out of the record.
summaryOmitsCoords ==
  [engine |-> engine, font |-> PathName(font_path), coords |-> <<>>,
   features |-> features, size |-> font_size]

\* BaseRenderer.summary: the record built from the attributes.
summary ==
  [engine |-> engine, font |-> PathName(font_path), coords |-> instance_coords,
   features |-> features, size |-> font_size]

\* A call of summary() after the construction or an update hook, before the
\* renders that follow.
Summary ==
  /\ status = "ok" /\ \A w \in Workers : calls[w].pc = "idle"
  /\ op' = [Op("summary", "none", FALSE, {}, NoArgs) EXCEPT !.ret = summary]
  /\ UNCHANGED << platform, status, engine, font_path, fields, handles, calls,
                  prev, hooks, pool, probe >>

Next ==
  \/ Construct
  \/ CreateRenderer
  \/ update_instance_coords
  \/ update_tracking
  \/ update_dimensions
  \/ RenderStart
  \/ RenderLoad
  \/ RenderBlit
  \/ RenderCT
  \/ Summary

Spec == Init /\ [][Next]_vars

\* ----------------------------------------------------------- the factory
\* The systems the package is imported on: a Linux and a macOS, each with and
\* without uharfbuzz and freetype-py, the macOS with and without PyObjC.
FactoryPlatforms ==
  { [system |-> "Linux", hb |-> TRUE, ct |-> FALSE],
    [system |-> "Linux", hb |-> FALSE, ct |-> FALSE],
    [system |-> "Darwin", hb |-> TRUE, ct |-> TRUE],
    [system |-> "Darwin", hb |-> FALSE, ct |-> TRUE],
    [system |-> "Darwin", hb |-> TRUE, ct |-> FALSE],
    [system |-> "Darwin", hb |-> FALSE, ct |-> FALSE] }

Range(seq) == {seq[i] : i \in 1..Len(seq)}

\* Mutant of list_available: HarfBuzz is appended first.
list_availableHarfBuzzFirst(plat) ==
  (IF HarfBuzzAvailable(plat) THEN << "simple-harfbuzz" >> ELSE << >>) \o
  (IF CoreTextAvailable(plat) THEN << "simple-coretext" >> ELSE << >>)

\* list_available(): both renderer modules import on every system (their
\* native imports are guarded), the probes decide.
list_available(plat) ==
  (IF CoreTextAvailable(plat) THEN << "simple-coretext" >> ELSE << >>) \o
  (IF HarfBuzzAvailable(plat) THEN << "simple-harfbuzz" >> ELSE << >>)

ListAvailable ==
  /\ status = "none"
  /\ op' = [Op("list_available", "none", FALSE, {}, NoArgs)
              EXCEPT !.ret = list_available(platform)]
  /\ UNCHANGED << platform, status, engine, font_path, fields, handles, calls,
                  prev, hooks, pool, probe >>

\* The backend render_text_simple selects for backend="auto".
AutoBackend(plat, available) ==
  IF plat.system = "Darwin" /\ "simple-coretext" \in Range(available)
  THEN "simple-coretext"
  ELSE IF "simple-harfbuzz" \in Range(available) THEN "simple-harfbuzz"
  ELSE available[1]

\* render_text_simple(text, font_path, "auto", font_size, width, height): the
\* selection and create_renderer; the render_text call on the new renderer
\* follows with the text given.
render_text_simple(text, f, s, w, h) ==
  LET available == list_available(platform) IN
  /\ IF available = << >>
     THEN Failed("render_text_simple", "RendererUnavailableError")
     ELSE create_renderer_from("render_text_simple",
                               AutoBackend(platform, available), f, s, w, h)
  /\ calls' = IF status' = "ok"
              THEN [calls EXCEPT ![1] = [IdleCall EXCEPT !.pc = "pending",
                                                         !.text = text]]
              ELSE calls

RenderTextSimple ==
  /\ status = "none"
  /\ \E text \in Texts, f \in FontFiles, s \in CtorSizes, w \in {12}, h \in {4} :
       render_text_simple(text, f, s, w, h)

InitFactory ==
  /\ platform \in FactoryPlatforms
  /\ status = "none"
  /\ engine = "none"
  /\ font_path = "good"
  /\ instance_coords = <<>>
  /\ features = <<>>
  /\ width = 0 /\ height = 0 /\ font_size = 0 /\ tracking = 0
  /\ hb_font = HBDefaults
  /\ ft_face = NoFace
  /\ ct_font = NoFont
  /\ calls = [w \in Workers |-> IdleCall]
  /\ prev = NoPrev
  /\ op = Op("none", "none", FALSE, {}, NoArgs)
  /\ hooks = 0
  /\ pool = OnePool
  /\ probe = NoProbe

NextFactory ==
  \/ ListAvailable
  \/ RenderTextSimple
  \/ RenderStart
  \/ RenderLoad
  \/ RenderBlit
  \/ RenderCT

SpecFactory == InitFactory /\ [][NextFactory]_vars

\* ------------------------------------------------------- a pool of workers
\* Two workers call render_text without a lock, on one HarfBuzzRenderer or on
\* one each (built alike); a call is interleaved with the other worker's call
\* at the load_glyph call and at the read of the face's glyph slot.
PerWorkerPool == [shared |-> FALSE, glyph2 |-> 0]

InitConcurrent ==
  /\ platform = [system |-> "Linux", hb |-> TRUE, ct |-> FALSE]
  /\ status = "none"
  /\ engine = "none"
  /\ font_path = "good"
  /\ instance_coords = <<>>
  /\ features = <<>>
  /\ width = 0 /\ height = 0 /\ font_size = 0 /\ tracking = 0
  /\ hb_font = HBDefaults
  /\ ft_face = NoFace
  /\ ct_font = NoFont
  /\ calls = [w \in Workers |-> IdleCall]
  /\ prev = NoPrev
  /\ op = Op("none", "none", FALSE, {}, NoArgs)
  /\ hooks = 0
  /\ pool \in {OnePool, PerWorkerPool}
  /\ probe = NoProbe

WorkerStart == \E w \in Workers, t \in Texts : HBRenderStart(w, t)
WorkerLoad == \E w \in Workers : HBRenderLoad(w)
WorkerBlit == \E w \in Workers : HBRenderBlit(w)

NextConcurrent ==
  \/ Construct
  \/ WorkerStart
  \/ WorkerLoad
  \/ WorkerBlit

SpecConcurrent == InitConcurrent /\ [][NextConcurrent]_vars

\* ------------------------------------------- one glyph of the loop, alone
\* The loop body of render_text for one glyph with ink, on canvases and
\* bitmaps of every content and at every position around the canvas.
Coverages == {0, 64, 128, 255}
GlyphSides == {1, 2}
\* Canvases a call has composited on before: fresh, and with the samples the
\* font's glyphs leave.
ProbeCanvases ==
  { Blank(ProbeHeight, ProbeWidth),
    [r \in 0..(ProbeHeight - 1) |-> [c \in 0..(ProbeWidth - 1) |->
       CASE (r + c) % 4 = 0 -> 255
         [] (r + c) % 4 = 1 -> 191
         [] (r + c) % 4 = 2 -> 126
         [] OTHER -> 0]] }
\* bitmap_left and bitmap_top that put the glyph from three pixels before the
\* canvas to one pixel past it.
ProbeLefts == (-Margin - 3)..(ProbeWidth + 1 - Margin)
ProbeTops == ((ProbeHeight * BaselinePct) \div 100 - ProbeHeight - 1)
               ..((ProbeHeight * BaselinePct) \div 100 + 3)
ProbeBitmaps ==
  UNION { { [width |-> gw, rows |-> gh, left |-> l, top |-> t, buffer |-> b] :
              l \in ProbeLefts, t \in ProbeTops,
              b \in [0..(gh - 1) -> [0..(gw - 1) -> Coverages]] } :
          gw \in GlyphSides, gh \in GlyphSides }
ProbePos == [codepoint |-> GlyphA, x_advance |-> 1000, x_offset |-> 0, y_offset |-> 0]

InitComposite ==
  /\ platform = [system |-> "Linux", hb |-> TRUE, ct |-> FALSE]
  /\ status = "ok"
  /\ engine = "harfbuzz"
  /\ font_path = "good"
  /\ instance_coords = <<>>
  /\ features = <<>>
  /\ width = ProbeWidth /\ height = ProbeHeight /\ font_size = 2
  /\ tracking \in {0, 2 * 500}
  /\ hb_font = HBDefaults
  /\ ft_face = [size |-> 2, coords |-> FTDefaults, glyph |-> 0]
  /\ ct_font = NoFont
  /\ calls = [w \in Workers |-> IdleCall]
  /\ prev = NoPrev
  /\ op = Op("HarfBuzzRenderer", "none", FALSE, {}, NoArgs)
  /\ hooks = 0
  /\ pool = OnePool
  /\ probe \in { [NoProbe EXCEPT !.img = c, !.glyph = bm,
                                  !.pen_x = Margin * 1000, !.pos = ProbePos] :
                    c \in ProbeCanvases, bm \in ProbeBitmaps }

\* x, y, self._composite_glyph(img, glyph_array, x, y) and the pen advance.
CompositeStep ==
  /\ ~probe.applied
  /\ LET bm == probe.glyph
         x == DestX(probe.pen_x, probe.pos, bm, font_size)
         y == DestY(height, probe.pos, bm, font_size)
     IN probe' = [probe EXCEPT
                    !.applied = TRUE, !.x = x, !.y = y,
                    !.out = composite_glyph(probe.img, bm, x, y),
                    !.pen_after = NextPen(probe.pen_x, probe.pos, bm)]
  /\ UNCHANGED << platform, status, engine, font_path, fields, handles, calls,
                  prev, op, hooks, pool >>

NextComposite == CompositeStep

SpecComposite == InitComposite /\ [][NextComposite]_vars

\* ------------------------------------------- the axis identifier of a tag
\* The key _create_font computes for each of two tags of a mapping: the five
\* tags of the table and every four-letter tag over the letters g, h, t, w.
TagLetters == {103, 104, 116, 119}
ProbeTags ==
  {TagBytes(t) : t \in KnownAxisTags} \cup [1..4 -> TagLetters]
NoIds == [applied |-> FALSE, tag |-> <<>>, other |-> <<>>, id |-> 0, other_id |-> 0]

InitAxisId ==
  /\ platform = [system |-> "Darwin", hb |-> FALSE, ct |-> TRUE]
  /\ status = "none"
  /\ engine = "none"
  /\ font_path = "good"
  /\ instance_coords = <<>>
  /\ features = <<>>
  /\ width = 0 /\ height = 0 /\ font_size = 0 /\ tracking = 0
  /\ hb_font = HBDefaults
  /\ ft_face = NoFace
  /\ ct_font = NoFont
  /\ calls = [w \in Workers |-> IdleCall]
  /\ prev = NoPrev
  /\ op = Op("none", "none", FALSE, {}, NoArgs)
  /\ hooks = 0
  /\ pool = OnePool
  /\ probe \in {[NoIds EXCEPT !.tag = a, !.other = b] : a \in ProbeTags, b \in ProbeTags}

\* The loop over instance_coords.items() for the two tags.
AxisIdStep ==
  /\ ~probe.applied
  /\ probe' = [probe EXCEPT !.applied = TRUE,
                            !.id = AxisIdOfBytes(probe.tag),
                            !.other_id = AxisIdOfBytes(probe.other)]
  /\ UNCHANGED << platform, status, engine, font_path, fields, handles, calls,
                  prev, op, hooks, pool >>

NextAxisId == AxisIdStep

SpecAxisId == InitAxisId /\ [][NextAxisId]_vars

\* ---------------------------------------------- the caller's own objects
\* d[t] = v on a dict
SetItem(items, t, v) ==
  IF HasKey(items, t)
  THEN [i \in 1..Len(items) |-> IF items[i].tag = t THEN Item(t, v) ELSE items[i]]
  ELSE Append(items, Item(t, v))

\* The caller writes coords["wght"] = 900.0 into the mapping it passed to the
\* constructor or to update_instance_coords. `instance_coords or {}` stores
\* that very mapping when it is not empty, so the attribute shows the write;
\* no handle is rebuilt.
CallerSetsItem ==
  /\ CanUpdate
  /\ instance_coords # <<>>
  /\ instance_coords' = SetItem(instance_coords, "wght", PyNum(900))
  /\ instance_coords' # instance_coords
  /\ op' = Op("caller_setitem", "none", FALSE, {}, NoArgs)
  /\ Forget
  /\ UNCHANGED << platform, status, engine, font_path, features, width, height,
                  font_size, tracking, handles >>

\* img[:] = 0 on the array
Scribbled(img) == [r \in DOMAIN img |-> [c \in DOMAIN img[r] |-> 0]]

\* The caller overwrites the buffer its last render_text call returned.
CallerWritesBuffer ==
  /\ status = "ok" /\ Returned(1)
  /\ calls[1].img # Scribbled(calls[1].img)
  /\ calls' = [calls EXCEPT ![1].img = Scribbled(calls[1].img)]
  /\ op' = Op("caller_write", "none", FALSE, {}, NoArgs)
  /\ UNCHANGED << platform, status, engine, font_path, fields, handles, prev,
                  hooks, pool, probe >>

\* A caller that keeps the mapping and the buffers it exchanged with the
\* renderer and writes into them between the calls.
NextCaller ==
  \/ Construct
  \/ update_instance_coords
  \/ update_tracking
  \/ RenderStart
  \/ RenderLoad
  \/ RenderBlit
  \/ RenderCT
  \/ CallerSetsItem
  \/ CallerWritesBuffer

SpecCaller == Init /\ [][NextCaller]_vars

\* ------------------------------------------------- render_text as a function
\* The loop of HarfBuzzRenderer.render_text run to its end from glyph i: the
\* buffer returned, or the error raised by a glyph that does not load.
RECURSIVE HBWalk(_, _, _, _)
HBWalk(img, glyphs, i, pen) ==
  IF i > Len(glyphs) THEN [ok |-> TRUE, err |-> "none", val |-> img]
  ELSE IF ~FT_Loadable(glyphs[i].codepoint)
  THEN [ok |-> FALSE, err |-> "RendererInitError", val |-> <<>>]
  ELSE LET pos == glyphs[i]
           bm == Bitmap(pos.codepoint, ft_face.size, ft_face.coords)
       IN HBWalk(IF HasInk(bm)
                 THEN composite_glyph(img, bm, DestX(pen, pos, bm, font_size),
                                      DestY(height, pos, bm, font_size))
                 ELSE img,
                 glyphs, i + 1, NextPen(pen, pos, bm))

\* What render_text(text) gives in the current state of the renderer.
render_text(text) ==
  IF engine = "harfbuzz"
  THEN HBWalk(Blank(height, width), Shape(text, hb_font, features), 1, Margin * 1000)
  ELSE [ok |-> TRUE, err |-> "none",
        val |-> CTLineDraw(Blank(height, width),
                           Shape(text, CTCoords(ct_font), ct_font.features), 1,
                           Margin * 1000, ct_font, KernPoints(tracking, font_size))]

\* ================================================================== claims
HasShape(img, h, w) ==
  /\ DOMAIN img = 0..(h - 1)
  /\ \A r \in DOMAIN img : DOMAIN img[r] = 0..(w - 1)
InRange(img) == \A r \in DOMAIN img : \A c \in DOMAIN img[r] : img[r][c] \in 0..255
AllWhite(img) == \A r \in DOMAIN img : \A c \in DOMAIN img[r] : img[r][c] = 255
HasInk255(img) == \E r \in DOMAIN img : \E c \in DOMAIN img[r] : img[r][c] < 255

\* C1: after construction and any update hooks, the canvas of a render_text
\* call of a non-empty text, after every glyph composite and when the call
\* returns, has exactly height rows of width columns (the stored height and
\* width) and every sample is an integer in 0..255.
C1_GridOfBytes ==
  \A w \in Workers :
    (calls[w].pc \in {"load", "blit", "done"} /\ calls[w].text # <<>>) =>
      /\ HasShape(calls[w].img, height, width)
      /\ InRange(calls[w].img)
C1_Witness ==
  /\ engine = "harfbuzz" /\ Returned(1) /\ Len(calls[1].text) = 2
  /\ hooks > 0 /\ width = 11 /\ height = 2
  /\ HasInk255(calls[1].img)

C3_Deterministic ==
  \A w \in Workers : (Returned(w) /\ prev.valid) => calls[w].img = prev.img
C3_Witness ==
  /\ Returned(1) /\ prev.valid /\ Len(calls[1].text) = 2
  /\ HasInk255(calls[1].img) /\ calls[1].img = prev.img

UpdateHooks == {"update_instance_coords", "update_tracking", "update_dimensions"}
HandlesKept == hb_font' = hb_font /\ ft_face' = ft_face /\ ct_font' = ct_font

\* C4: when a rebuild of a native handle fails inside update_instance_coords
\* or update_dimensions, the hook returns without raising and the stored
\* instance_coords and font_size and every handle are as before the call.
C4_RetainsPreviousState ==
  [][(op'.name \in {"update_instance_coords", "update_dimensions"}
        /\ op'.failed # {}) =>
       /\ op'.raised = "none"
       /\ instance_coords' = instance_coords
       /\ font_size' = font_size
       /\ HandlesKept]_vars

\* C5: when a rebuild fails inside update_instance_coords, every handle is as
\* it was before the call and no error reaches the caller.
C5_HandlesUntouchedOnFailure ==
  [][(op'.name = "update_instance_coords" /\ op'.failed # {}) =>
       (op'.raised = "none" /\ HandlesKept)]_vars

\* The design coordinate the stored mapping gives axis a (halves, within the
\* axis), -1 when the stored value is no number.
StoredCoord(a) ==
  LET v == PyFloat(UserCoord(instance_coords, a))
  IN IF v.ok THEN Min(v.val, FontAxes[a].max) ELSE -1

\* C6: whenever a render_text call can start, the size and the variation
\* coordinates in effect on each native handle are the stored font_size and
\* instance_coords.
C6_HandlesMatchConfig ==
  (status = "ok" /\ Quiet) =>
    /\ engine = "harfbuzz" =>
         /\ ft_face.size = font_size
         /\ \A a \in AxisIx :
              /\ hb_font[a] = StoredCoord(a)
              /\ ft_face.coords[a] = StoredCoord(a) * 32768
    /\ engine = "coretext" =>
         /\ ct_font.size = font_size
         /\ \A a \in AxisIx : CTCoords(ct_font)[a] = StoredCoord(a)

\* A mapping with a key that is no axis of the font (unknown) or no str
\* (malformed).
HasForeignTag(arg) ==
  \E i \in 1..Len(arg.items) :
    \A a \in AxisIx : arg.items[i].tag # FontAxes[a].tag

\* C7: update_instance_coords with a mapping that holds an unknown or
\* malformed axis tag does not raise, and render_text of every text gives after
\* the call what it gave before the call.
C7_ForeignTagChangesNothing ==
  [][(op'.name = "update_instance_coords" /\ HasForeignTag(op'.args.coords)) =>
       /\ op'.raised = "none"
       /\ \A t \in Texts : render_text(t)' = render_text(t)]_vars

\* The number the argument converts to (halves), 0 when it converts to none.
NumericValue(v) == IF PyFloat(v).ok THEN PyFloat(v).val ELSE 0

\* C8: update_tracking returns without raising for every argument, leaves the
\* numeric value of the argument in tracking, or 0.0 when the argument
\* converts to no number, and changes no other field and no handle.
C8_TrackingOnly ==
  [][op'.name = "update_tracking" =>
       /\ op'.raised = "none"
       /\ tracking' = NumericValue(op'.args.tracking)
       /\ width' = width /\ height' = height /\ font_size' = font_size
       /\ instance_coords' = instance_coords /\ features' = features
       /\ HandlesKept]_vars
C8_Witness ==
  /\ op.name = "update_tracking" /\ op.raised = "none"
  /\ op.args.tracking = PyStrBad /\ tracking = 0 /\ hooks = 2

Given(v) == v.k # "none"

\* C9: update_dimensions with a width and a height that are integers stores
\* both, and a render_text that returns afterwards returns a height x width
\* buffer; a rebuild of a handle is attempted exactly when font_size is given
\* and differs from the stored font_size, and without an attempt no handle
\* changes.
C9_DimensionsStored ==
  /\ [][op'.name = "update_dimensions" =>
         LET a == op'.args IN
         /\ (PyInt(a.width).ok /\ PyInt(a.height).ok) =>
              (width' = PyInt(a.width).val /\ height' = PyInt(a.height).val)
         /\ (~Given(a.font_size) \/ PyInt(a.font_size) = Ok(font_size)) =>
              (~op'.attempted /\ HandlesKept)
         /\ op'.attempted =>
              (Given(a.font_size) /\ PyInt(a.font_size) # Ok(font_size))]_vars
  /\ [](\A w \in Workers : Returned(w) => HasShape(calls[w].img, height, width))
C9_Witness ==
  /\ op.name = "render_text" /\ Returned(1) /\ calls[1].text # <<>>
  /\ width = 11 /\ height = 2 /\ hooks = 1
  /\ HasShape(calls[1].img, 2, 11)

\* C10: a construction that fails, directly or through create_renderer,
\* raises RendererInitError and nothing else.
C10_OnlyInitError == status = "failed" => op.raised = "RendererInitError"

\* C11: when load_glyph fails for a glyph of the run, the render_text call of
\* the HarfBuzz backend ends there with RendererInitError and without a
\* buffer; no call goes on to composite, or returns, past a glyph that did
\* not load.
C11_GlyphFailureFatal ==
  /\ [][\A w \in Workers :
          (calls[w].pc = "load" /\ calls'[w] # calls[w]
             /\ calls[w].glyphs[calls[w].i].codepoint = GlyphBroken) =>
            /\ calls'[w].pc = "raised"
            /\ calls'[w].img = <<>>
            /\ op'.name = "render_text" /\ op'.raised = "RendererInitError"]_vars
  /\ [](\A w \in Workers :
          (engine = "harfbuzz" /\ calls[w].pc \in {"blit", "done"}) =>
            \A j \in 1..Len(calls[w].glyphs) :
              j <= calls[w].i => calls[w].glyphs[j].codepoint # GlyphBroken)
C11_Witness ==
  /\ calls[1].pc = "raised" /\ calls[1].text = <<"A", "Q">>
  /\ calls[1].i = 2 /\ calls[1].img = <<>>
  /\ op.raised = "RendererInitError"

\* The scaled advances of the first k glyphs of a run, in thousandths of a pixel.
RECURSIVE AdvanceSum(_, _, _)
AdvanceSum(glyphs, k, size) ==
  IF k = 0 THEN 0
  ELSE AdvanceSum(glyphs, k - 1, size) + Scaled(glyphs[k].x_advance, size)

\* C12: a render_text call of the HarfBuzz backend that returns for a run of
\* two or more glyphs under a positive tracking has moved the pen farther than
\* the same run moves it under tracking 0, which is the margin plus the scaled
\* advances.
C12_TrackingWidens ==
  \A w \in Workers :
    (engine = "harfbuzz" /\ Returned(w) /\ Len(calls[w].glyphs) >= 2
       /\ tracking > 0) =>
      calls[w].pen_x >
        Margin * 1000 + AdvanceSum(calls[w].glyphs, Len(calls[w].glyphs), font_size)

\* C18: in a render_text call of the HarfBuzz backend the pen, after the
\* first k glyphs of the run, is at the margin plus their scaled advances plus
\* k times the tracking in pixels, whether or not their bitmaps are empty.
C18_PenAfterEachGlyph ==
  \A w \in Workers :
    (engine = "harfbuzz" /\ calls[w].pc \in {"load", "blit", "done"}
       /\ calls[w].text # <<>>) =>
      calls[w].pen_x =
        Margin * 1000 + AdvanceSum(calls[w].glyphs, calls[w].i - 1, font_size)
          + (calls[w].i - 1) * TrackingPx(tracking, font_size)

\* C13: once the renderer is constructed, only a step of one of its update
\* hooks changes the stored instance_coords or features.
C13_OnlyHooksChangeConfig ==
  [][(status = "ok" /\ (instance_coords' # instance_coords \/ features' # features))
       => op'.name \in UpdateHooks]_vars

\* A step of a render_text call of worker w.
RenderStep(w) == op'.name = "render_text" /\ calls'[w] # calls[w]

\* C14: a step of a render_text call changes none of width, height,
\* font_size, tracking, instance_coords and features, whether the call goes on,
\* returns or raises; and the buffer a call returns is the rendering of its
\* text on a blank canvas in the renderer's state, whatever the caller wrote
\* into the buffers returned before and whether or not the call before raised.
C14_RenderLeavesConfig ==
  [][\A w \in Workers : RenderStep(w) =>
       /\ fields' = fields
       /\ calls'[w].pc = "done" =>
            calls'[w].img = render_text(calls'[w].text).val]_vars
C14_Witness ==
  /\ op.name = "render_text" /\ Returned(1) /\ engine = "harfbuzz"
  /\ prev.valid /\ prev.img = Scribbled(calls[1].img)
  /\ HasInk255(calls[1].img) /\ calls[1].img # prev.img

\* C15: a call of summary() changes no field, no handle and no call, does not
\* raise, and returns the engine, the font file's name and the stored
\* instance_coords, features and font_size as the hooks left them.
C15_SummaryReportsStored ==
  [][op'.name = "summary" =>
       /\ fields' = fields /\ HandlesKept /\ calls' = calls
       /\ engine' = engine /\ font_path' = font_path
       /\ op'.raised = "none"
       /\ op'.ret = [engine |-> engine, font |-> PathName(font_path),
                     coords |-> instance_coords, features |-> features,
                     size |-> font_size]]_vars
C15_Witness ==
  /\ op.name = "summary" /\ hooks = 2
  /\ op.ret.coords = << Item("wght", PyNum(700)) >> /\ op.ret.size = 3
  /\ op.ret.font = "good.ttf" /\ op.ret.engine = "harfbuzz"

\* The engine attribute of the renderer class a backend name stands for.
EngineOf(backend) ==
  IF backend = "simple-coretext" THEN "coretext" ELSE "harfbuzz"

\* C16: list_available() returns without raising exactly the backends whose
\* is_available() holds on the system; render_text_simple with backend "auto"
\* raises RendererUnavailableError exactly when that list is empty, and the
\* renderer it constructs is of the first backend of the list.
C16_AutoTakesFirstAvailable ==
  /\ [][op'.name = "list_available" =>
         /\ op'.raised = "none"
         /\ Range(op'.ret) \subseteq {"simple-coretext", "simple-harfbuzz"}
         /\ "simple-coretext" \in Range(op'.ret) <=> CoreTextAvailable(platform)
         /\ "simple-harfbuzz" \in Range(op'.ret) <=> HarfBuzzAvailable(platform)]_vars
  /\ [][(op'.name = "render_text_simple" /\ status = "none") =>
         /\ op'.raised = "RendererUnavailableError"
              <=> list_available(platform) = << >>
         /\ status' = "ok" => engine' = EngineOf(list_available(platform)[1])]_vars
C16_Witness ==
  /\ op.name = "render_text_simple" /\ status = "ok"
  /\ platform = [system |-> "Darwin", hb |-> TRUE, ct |-> TRUE]
  /\ engine = "coretext" /\ Pending(1) /\ calls[1].text = <<"A", "A">>

\* The canvas of call c after the loop body composites glyph g at c's pen.
BlitOf(c, g) ==
  LET pos == c.glyphs[c.i]
      bm == Bitmap(g, ft_face.size, ft_face.coords)
  IN IF HasInk(bm)
     THEN composite_glyph(c.img, bm, DestX(c.pen_x, pos, bm, font_size),
                          DestY(height, pos, bm, font_size))
     ELSE c.img

\* C17: on one HarfBuzzRenderer shared by two workers, a load_glyph of one
\* call while the other call is between its own load_glyph and its read of
\* the face's glyph slot puts the loading call's glyph into the slot, and
\* the other call then composites the bitmap of that glyph; with a renderer
\* per worker every call that returns, under every interleaving, returns what
\* a serial render_text of its text returns.
C17_SharedSlotRace ==
  /\ [][\A w \in Workers, v \in Workers :
          (pool.shared /\ w # v /\ calls[w].pc = "blit"
             /\ calls[v].pc = "load" /\ calls'[v].pc = "blit") =>
            /\ calls'[w] = calls[w]
            /\ ft_face'.glyph = calls[v].glyphs[calls[v].i].codepoint]_vars
  /\ [][\A w \in Workers :
          (pool.shared /\ calls[w].pc = "blit" /\ calls'[w] # calls[w]) =>
            calls'[w].img = BlitOf(calls[w], ft_face.glyph)]_vars
  /\ [](\A w \in Workers :
          (~pool.shared /\ Returned(w)) =>
            calls[w].img = render_text(calls[w].text).val)
C17_Witness ==
  /\ pool.shared /\ Returned(1) /\ calls[1].text = <<"A">>
  /\ calls[2].pc = "blit" /\ calls[2].text = <<" ">>
  /\ calls[1].img # render_text(calls[1].text).val
  /\ AllWhite(calls[1].img)

\* The glyph rectangle at (x, y) misses the canvas.
Disjoint(x, y, bm, img) ==
  \/ x + bm.width <= 0 \/ x >= Cols(img)
  \/ y + bm.rows <= 0 \/ y >= Rows(img)
\* Canvas pixel (X, Y) lies under the glyph rectangle at (x, y).
Under(X, Y, x, y, bm) ==
  X >= x /\ X < x + bm.width /\ Y >= y /\ Y < y + bm.rows

\* C19: when the glyph rectangle at (x, y) misses the canvas, whatever the
\* bitmap holds and whether x, y are negative or past the canvas, the
\* composite leaves every sample of the canvas as it was, and the pen moves on
\* by the glyph's scaled advance and the tracking.
C19_OffCanvasNoOp ==
  (probe.applied /\ Disjoint(probe.x, probe.y, probe.glyph, probe.img)) =>
    /\ probe.out = probe.img
    /\ probe.pen_after = probe.pen_x + Scaled(probe.pos.x_advance, font_size)
                            + TrackingPx(tracking, font_size)
C19_Witness ==
  /\ probe.applied /\ probe.x = -2 /\ probe.y = 1
  /\ probe.glyph.width = 2 /\ probe.glyph.rows = 2
  /\ \A r \in 0..1, c \in 0..1 : probe.glyph.buffer[r][c] = 255
  /\ probe.img # Blank(ProbeHeight, ProbeWidth) /\ probe.out = probe.img
  /\ tracking > 0 /\ probe.pen_after > probe.pen_x

\* existing * (1 - c / 255) in exact arithmetic, truncated
ExactBlend(existing, c) == (existing * (255 - c)) \div 255

\* C20 as stated: after a composite at (x, y) every canvas pixel under the
\* glyph rectangle holds existing * (1 - c/255) truncated, c the bitmap sample
\* at column X - x and row Y - y, and every other pixel is as before.
C20_ExactBlend ==
  probe.applied =>
    \A Y \in 0..(Rows(probe.img) - 1), X \in 0..(Cols(probe.img) - 1) :
      probe.out[Y][X] =
        IF Under(X, Y, probe.x, probe.y, probe.glyph)
        THEN ExactBlend(probe.img[Y][X],
                        probe.glyph.buffer[Y - probe.y][X - probe.x])
        ELSE probe.img[Y][X]

\* C20 amended: the product is formed in single precision, so the pixel under
\* the glyph holds the exact value existing * (1 - c/255) truncated or one
\* less than it; coverage 255 gives 0 and coverage 0 leaves the pixel as it
\* was; every pixel is blended at most once and pixels outside the glyph
\* rectangle are as before.
C20_SinglePrecisionBlend ==
  probe.applied =>
    \A Y \in 0..(Rows(probe.img) - 1), X \in 0..(Cols(probe.img) - 1) :
      IF Under(X, Y, probe.x, probe.y, probe.glyph)
      THEN LET c == probe.glyph.buffer[Y - probe.y][X - probe.x]
               exact == ExactBlend(probe.img[Y][X], c)
           IN /\ probe.out[Y][X] \in {exact - 1, exact} \cap (0..255)
              /\ c = 255 => probe.out[Y][X] = 0
              /\ c = 0 => probe.out[Y][X] = probe.img[Y][X]
      ELSE probe.out[Y][X] = probe.img[Y][X]
C20_Witness ==
  /\ probe.applied /\ probe.x = 2 /\ probe.y = 3
  /\ probe.glyph.width = 2 /\ probe.glyph.rows = 2
  /\ probe.img = Blank(ProbeHeight, ProbeWidth)
  /\ probe.glyph.buffer[0][0] = 128 /\ probe.out[3][2] = 126
  /\ ExactBlend(255, 128) = 127

\* C21: on a constructed HarfBuzzRenderer, between render_text calls, the
\* shaping handle and the rasteriser handle have the same design coordinate in
\* effect on every axis of the font, for integer and for fractional values
\* and after an update in which one of the two handles raised.
C21_HandlesInSync ==
  (status = "ok" /\ engine = "harfbuzz" /\ Quiet) =>
    \A a \in AxisIx : ft_face.coords[a] = hb_font[a] * 32768

\* The caller's coordinate for axis a in 16.16: value * 65536, the value being
\* held in halves.
ExactFixed(items, a) == PyFloat(UserCoord(items, a)).val * 32768

\* C22: the array update_instance_coords submits to the rasteriser has one
\* element per axis of the font in the font's axis order, element a being the
\* caller's coordinate for the axis's tag times 65536 when the mapping holds
\* the tag and the axis default times 65536 otherwise; tags that are no axis
\* of the font change no element.
C22_FixedPointArray ==
  [][(engine = "harfbuzz" /\ op'.name = "update_instance_coords"
        /\ "ft_face" \notin op'.failed) =>
       /\ DOMAIN ft_face'.coords = AxisIx
       /\ \A a \in AxisIx :
            ft_face'.coords[a] = ExactFixed(OrEmpty(op'.args.coords), a)]_vars

\* The bytes of a 32-bit integer, most significant first.
UnpackBytes(n) ==
  << n \div 16777216, (n \div 65536) % 256, (n \div 256) % 256, n % 256 >>

\* C23: the identifier of a four-character ASCII tag is the table entry for
\* wght, wdth, slnt, ital and opsz and otherwise b0*2^24 + b1*2^16 + b2*2^8 +
\* b3 of its bytes; the five table entries are that same packing of their
\* tags; the identifier is a 32-bit integer from which the tag is read back,
\* and two distinct tags never get the same identifier.
C23_AxisIdIsBigEndianTag ==
  /\ \A t \in KnownAxisTags : axis_ids(t) = PackBytes(TagBytes(t))
  /\ probe.applied =>
       /\ probe.id = probe.tag[1] * 16777216 + probe.tag[2] * 65536
                       + probe.tag[3] * 256 + probe.tag[4]
       /\ IsKnownBytes(probe.tag) =>
            \E t \in KnownAxisTags : TagBytes(t) = probe.tag /\ probe.id = axis_ids(t)
       /\ probe.id >= 0 /\ probe.id \div 65536 < 65536
       /\ UnpackBytes(probe.id) = probe.tag
       /\ probe.tag # probe.other => probe.id # probe.other_id
C23_Witness ==
  /\ probe.applied
  /\ probe.tag = <<119, 103, 104, 116>> /\ probe.id = 2003265652
  /\ probe.other = <<119, 103, 116, 104>> /\ probe.other_id = 2003268712

\* What building the variation or the feature attribute raises.
AttributeErrors == {"ValueError", "TypeError", "AttributeError", "OverflowError"}

\* C24: when building the variation attribute fails in _create_font, the
\* CoreText backend gets a font built without that attribute, with the
\* feature settings and the configured size: a construction does not fail
\* with the attribute's error, and a hook whose rebuild met the failure
\* leaves that font in place.
C24_AttributeFailureFallsBack ==
  /\ [][op'.name = "CoreTextRenderer" => op'.raised \notin AttributeErrors]_vars
  /\ [][(engine = "coretext" /\ op'.name \in {"update_instance_coords", "update_dimensions"}
           /\ "ct_font" \in op'.failed) =>
          ct_font' = [size |-> font_size', variation |-> <<>>,
                      features |-> features']]_vars

\* C25: the spacing both backends take from tracking is tracking / 1000 *
\* font_size of the stored tracking and font_size at the render_text call:
\* the CoreText line is drawn with that kern after every glyph when it is not
\* zero and without kern otherwise, and the HarfBuzz loop moves the pen past
\* every glyph by the scaled advance plus that value when it is not zero.
C25_SameSpacing ==
  /\ [][\A w \in Workers :
          (engine = "coretext" /\ RenderStep(w) /\ calls'[w].pc = "done") =>
            calls'[w].img =
              CTLineDraw(Blank(height, width), calls'[w].glyphs, 1, Margin * 1000,
                         ct_font,
                         IF tracking # 0 THEN (tracking * font_size) \div 2 ELSE 0)]_vars
  /\ [][\A w \in Workers :
          (engine = "harfbuzz" /\ calls[w].pc = "blit" /\ calls'[w] # calls[w]) =>
            calls'[w].pen_x - calls[w].pen_x =
              Scaled(calls[w].glyphs[calls[w].i].x_advance, font_size)
                + (IF tracking # 0 THEN (tracking * font_size) \div 2 ELSE 0)]_vars

\* C26: for every canvas height of a constructed renderer, the row CoreText's
\* baseline_y denotes, height - baseline_y rows below the top, is the pen row
\* height * 0.75 of the HarfBuzz backend; both runs start at x = 10, and for
\* height 1200 the pen starts at (10, 900).
C26_SameBaselineRow ==
  /\ Margin = 10
  /\ PenY(1200) = 900 * 1000 /\ 1200 - BaselineFromBottom(1200) = 900
  /\ status = "ok" => (height - BaselineFromBottom(height)) * 1000 = PenY(height)

\* The handles a renderer freshly constructed with the stored configuration
\* holds, and whether that construction succeeds.
FreshArg == IF instance_coords = <<>> THEN NoneArg ELSE DictArg(instance_coords)
FreshConstructs ==
  IF engine = "harfbuzz"
  THEN HBInitError(platform, font_path, FreshArg, font_size) = "none"
  ELSE CTInitError(platform, font_path, FreshArg, DictArg(features), font_size) = "none"
AsFresh ==
  /\ FreshConstructs
  /\ engine = "harfbuzz" =>
       /\ hb_font = IF ArgTruthy(FreshArg) THEN set_variations(instance_coords).val
                    ELSE HBDefaults
       /\ ft_face.size = font_size
       /\ ft_face.coords = IF ArgTruthy(FreshArg)
                           THEN apply_variations_to_freetype(instance_coords).val
                           ELSE FTDefaults
  /\ engine = "coretext" =>
       ct_font = create_font(font_path, font_size, instance_coords, features).val

\* C27: a renderer just constructed holds the handles of its configuration; a
\* renderer that holds the handles a fresh construction with its stored
\* configuration gives still does so after every update hook whose rebuilds
\* succeed, so a pooled renderer brought to a configuration by such hooks is in
\* the state, and renders every text to the buffer, of a fresh one; and an
\* update to an empty or None mapping puts every axis at its default on every
\* handle.
C27_PooledIsFresh ==
  /\ [][(status = "none" /\ status' = "ok") => AsFresh']_vars
  /\ [][(status = "ok" /\ AsFresh /\ op'.name \in UpdateHooks /\ op'.failed = {})
          => AsFresh']_vars
  /\ [][(op'.name = "update_instance_coords" /\ OrEmpty(op'.args.coords) = <<>>) =>
          /\ op'.failed = {} /\ instance_coords' = <<>>
          /\ engine = "harfbuzz" => (hb_font' = HBDefaults /\ ft_face'.coords = FTDefaults)
          /\ engine = "coretext" => CTCoords(ct_font') = HBDefaults]_vars
C27_Witness ==
  /\ engine = "harfbuzz" /\ hooks = 2 /\ AsFresh
  /\ op.name = "update_instance_coords" /\ op.args.coords = NoneArg
  /\ op.failed = {} /\ hb_font = HBDefaults /\ ft_face.coords = FTDefaults
  /\ font_size = 1 /\ ft_face.size = 1

\* C28: for a composite whose glyph rectangle meets the canvas, the ranges
\* satisfy 0 <= x1 < x2 <= canvas width, 0 <= y1 < y2 <= canvas height,
\* 0 <= gx1 < gx2 <= glyph width, 0 <= gy1 < gy2 <= glyph rows, the glyph
\* region and the canvas region have the same shape, and the composite
\* changes no sample outside the canvas region.
C28_RangesInBounds ==
  (probe.applied /\ ~Disjoint(probe.x, probe.y, probe.glyph, probe.img)) =>
    LET k == clip(Cols(probe.img), Rows(probe.img),
                  probe.glyph.width, probe.glyph.rows, probe.x, probe.y)
    IN /\ 0 <= k.x1 /\ k.x1 < k.x2 /\ k.x2 <= Cols(probe.img)
       /\ 0 <= k.y1 /\ k.y1 < k.y2 /\ k.y2 <= Rows(probe.img)
       /\ 0 <= k.gx1 /\ k.gx1 < k.gx2 /\ k.gx2 <= probe.glyph.width
       /\ 0 <= k.gy1 /\ k.gy1 < k.gy2 /\ k.gy2 <= probe.glyph.rows
       /\ k.gx2 - k.gx1 = k.x2 - k.x1
       /\ k.gy2 - k.gy1 = k.y2 - k.y1
       /\ HasShape(probe.out, Rows(probe.img), Cols(probe.img))
       /\ \A Y \in 0..(Rows(probe.img) - 1), X \in 0..(Cols(probe.img) - 1) :
            probe.out[Y][X] # probe.img[Y][X] =>
              (k.x1 <= X /\ X < k.x2 /\ k.y1 <= Y /\ Y < k.y2)
C28_Witness ==
  /\ probe.applied /\ probe.x = -1 /\ probe.y = 3
  /\ probe.glyph.width = 2 /\ probe.glyph.rows = 2
  /\ clip(ProbeWidth, ProbeHeight, 2, 2, -1, 3) =
       [x1 |-> 0, x2 |-> 1, y1 |-> 3, y2 |-> 4,
        gx1 |-> 1, gx2 |-> 2, gy1 |-> 0, gy2 |-> 1]
  /\ probe.out[3][0] # probe.img[3][0]

\* C29: in a render_text call of the HarfBuzz backend the canvas starts with
\* every sample at 255, a glyph composite keeps or lowers every sample, and
\* it changes no sample outside the intersection of the glyph's destination
\* rectangle with the canvas.
C29_SamplesOnlyDarken ==
  /\ [][\A w \in Workers :
          (engine = "harfbuzz" /\ RenderStep(w) /\ calls[w].pc \notin {"load", "blit"}) =>
            AllWhite(calls'[w].img)]_vars
  /\ [][\A w \in Workers :
          (engine = "harfbuzz" /\ calls[w].pc = "blit" /\ calls'[w] # calls[w]) =>
            LET c == calls[w]
                pos == c.glyphs[c.i]
                bm == Bitmap(ft_face.glyph, ft_face.size, ft_face.coords)
                x == DestX(c.pen_x, pos, bm, font_size)
                y == DestY(height, pos, bm, font_size)
            IN \A Y \in 0..(height - 1), X \in 0..(width - 1) :
                 /\ calls'[w].img[Y][X] <= c.img[Y][X]
                 /\ ~Under(X, Y, x, y, bm) => calls'[w].img[Y][X] = c.img[Y][X]]_vars
C29_Witness ==
  /\ engine = "harfbuzz" /\ Returned(1) /\ calls[1].text = <<"A", "A">>
  /\ tracking = 2 * (-1000) /\ font_size = 2 /\ width = 11
  /\ calls[1].img[1][10] = 62
  /\ calls[1].img[1][0] = 255

\* C30: a call of update_dimensions either returns with every supplied value
\* among width, height and font_size stored, or raises for a value that is no
\* integer with width, height and font_size all as they were before the call.
C30_DimensionsAllOrNothing ==
  [][op'.name = "update_dimensions" =>
       LET a == op'.args IN
       \/ /\ op'.raised = "none"
          /\ Given(a.width) => width' = PyInt(a.width).val
          /\ Given(a.height) => height' = PyInt(a.height).val
          /\ Given(a.font_size) => font_size' = PyInt(a.font_size).val
       \/ /\ op'.raised # "none"
          /\ width' = width /\ height' = height /\ font_size' = font_size]_vars

====
